---- MODULE Spec2Model ----
(***************************************************************************)
(* Model of crates/merkle_toolkit/src/lib.rs: MerkleTree (new, append_leaf,*)
(* root, get_proof, get_proof_optimized, verify_proof) and hash_nodes.     *)
(*                                                                         *)
(* A digest ([u8; 32]) is a term: an atom <<n>> or a hash <<l, r>>.        *)
(* hash_nodes is SHA-256 over left || right; it is modelled as the free    *)
(* pairing constructor, i.e. as a collision-free hash whose outputs are    *)
(* never atoms.  <<0>> is the all-zero digest [0u8; 32].                   *)
(***************************************************************************)
EXTENDS Integers, Sequences, FiniteSets, TLC

VARIABLES trees, res

vars == <<trees, res>>

\* ---- bounds -------------------------------------------------------------
MaxLeaves == 4
MaxPairLeaves == 4

\* ---- digests ------------------------------------------------------------
D(n) == <<n>>

ZERO == D(0)

\* mutant: the hasher is fed left twice
hash_nodes_left_twice(left, right) == <<left, left>>

hash_nodes(left, right) == <<left, right>>

\* the digests a caller appends: the all-zero digest, another digest, and a
\* digest that is itself the hash of a pair
LeafInputs == {ZERO, D(1), hash_nodes(D(1), ZERO)}

IndexInputs == 0..(MaxLeaves + 1)

\* ---- MerkleTree ---------------------------------------------------------
MAX_DEPTH == 27

DepthInputs == {0, MAX_DEPTH, MAX_DEPTH + 1}

PairDepths == {MAX_DEPTH}

TreeIds == {1, 2}

NoTree == [built |-> FALSE, depth |-> 0, leaves |-> <<>>]

MerkleTree(depth) == [built |-> TRUE, depth |-> depth, leaves |-> <<>>]

\* mutant: the assertion is off by one
new_assert_off_by_one(depth) == depth <= MAX_DEPTH + 1

new_assert(depth) == depth <= MAX_DEPTH

\* level.chunks(2): consecutive pairs, the last chunk of an odd level has
\* one element
chunks2(level) ==
    [k \in 1..((Len(level) + 1) \div 2) |->
        IF 2 * k <= Len(level) THEN <<level[2 * k - 1], level[2 * k]>>
                               ELSE <<level[2 * k - 1]>>]

\* mutant: an unpaired element is hashed with a copy of itself
root_pair_duplicate(pair) ==
    LET left == pair[1]
        right == IF Len(pair) = 2 THEN pair[2] ELSE pair[1]
    IN hash_nodes(left, right)

\* mutant: right is read from pair[0]
root_pair_first(pair) ==
    LET left == pair[1]
        right == IF Len(pair) = 2 THEN pair[1] ELSE ZERO
    IN hash_nodes(left, right)

\* the closure of root(): pair -> hash_nodes(left, right)
root_pair(pair) ==
    LET left == pair[1]
        right == IF Len(pair) = 2 THEN pair[2] ELSE ZERO
    IN hash_nodes(left, right)

root_level(level) ==
    LET cs == chunks2(level) IN [k \in DOMAIN cs |-> root_pair(cs[k])]

RECURSIVE root_loop(_)
root_loop(level) ==
    IF Len(level) > 1 THEN root_loop(root_level(level)) ELSE level

root(leaves) ==
    LET level == root_loop(leaves)
    IN IF Len(level) = 0 THEN ZERO ELSE level[1]

\* ---- get_proof ----------------------------------------------------------
\* mutant: the bounds assertion admits index = leaves.len()
get_proof_assert_inclusive(leaves, index) == index <= Len(leaves)

get_proof_assert(leaves, index) == index < Len(leaves)

get_proof_pair(pair) ==
    LET left == pair[1]
        right == IF Len(pair) = 2 THEN pair[2] ELSE ZERO
    IN hash_nodes(left, right)

get_proof_level(level) ==
    LET cs == chunks2(level) IN [k \in DOMAIN cs |-> get_proof_pair(cs[k])]

sibling_of(level, current_index) ==
    LET sibling_index == IF current_index % 2 = 0 THEN current_index + 1
                                                  ELSE current_index - 1
    IN IF sibling_index < Len(level) THEN level[sibling_index + 1] ELSE ZERO

RECURSIVE get_proof_loop(_, _, _)
get_proof_loop(level, current_index, proof) ==
    IF Len(level) > 1
    THEN get_proof_loop(get_proof_level(level), current_index \div 2,
                        Append(proof, sibling_of(level, current_index)))
    ELSE proof

get_proof(leaves, index) == get_proof_loop(leaves, index, <<>>)

\* ---- get_proof_optimized ------------------------------------------------
get_proof_optimized_assert(leaves, index) == index < Len(leaves)

optimized_next(prev) ==
    LET cs == chunks2(prev)
    IN [k \in DOMAIN cs |->
          LET pair == cs[k]
              left == pair[1]
              right == IF Len(pair) = 2 THEN pair[2] ELSE ZERO
          IN hash_nodes(left, right)]

RECURSIVE build_levels(_)
build_levels(levels) ==
    IF Len(levels[Len(levels)]) > 1
    THEN build_levels(Append(levels, optimized_next(levels[Len(levels)])))
    ELSE levels

optimized_sibling(level, current_index) ==
    LET sibling_index == IF current_index % 2 = 0 THEN current_index + 1
                                                  ELSE current_index - 1
    IN IF sibling_index < Len(level) THEN level[sibling_index + 1] ELSE ZERO

\* mutant: the root level is walked too
walked_levels_all(levels) == levels

\* for level in &levels[..levels.len() - 1]
walked_levels(levels) == SubSeq(levels, 1, Len(levels) - 1)

RECURSIVE walk_levels(_, _, _)
walk_levels(rest, current_index, proof) ==
    IF Len(rest) = 0 THEN proof
    ELSE walk_levels(Tail(rest), current_index \div 2,
                     Append(proof, optimized_sibling(Head(rest), current_index)))

get_proof_optimized(leaves, index) ==
    LET levels == build_levels(<<leaves>>)
    IN walk_levels(walked_levels(levels), index, <<>>)

\* ---- verify_proof -------------------------------------------------------
\* mutant: the index parity is ignored
verify_step_left(computed_hash, sibling, idx) ==
    hash_nodes(computed_hash, sibling)

\* mutant: the odd branch hashes computed_hash where the sibling belongs
verify_step_no_sibling(computed_hash, sibling, idx) ==
    IF idx % 2 = 0 THEN hash_nodes(computed_hash, sibling)
                   ELSE hash_nodes(computed_hash, computed_hash)

verify_step(computed_hash, sibling, idx) ==
    IF idx % 2 = 0 THEN hash_nodes(computed_hash, sibling)
                   ELSE hash_nodes(sibling, computed_hash)

RECURSIVE verify_loop_same_idx(_, _, _)
\* mutant: idx is never halved
verify_loop_same_idx(computed_hash, proof, idx) ==
    IF Len(proof) = 0 THEN computed_hash
    ELSE verify_loop_same_idx(verify_step(computed_hash, Head(proof), idx),
                              Tail(proof), idx)

RECURSIVE verify_loop(_, _, _)
verify_loop(computed_hash, proof, idx) ==
    IF Len(proof) = 0 THEN computed_hash
    ELSE verify_loop(verify_step(computed_hash, Head(proof), idx),
                     Tail(proof), idx \div 2)

verify_proof(leaf, proof, index, claimed_root) ==
    verify_loop(leaf, proof, index) = claimed_root

\* ---- the calls ----------------------------------------------------------
\* res is the last call: its name, its arguments, whether it returned
\* (ok = FALSE: the assert! panicked) and what it returned.
Init ==
    /\ trees = [t \in TreeIds |-> NoTree]
    /\ res = [op |-> "none", t |-> 0, ok |-> TRUE]

New(t, depth) ==
    /\ ~trees[t].built
    /\ IF new_assert(depth)
       THEN /\ trees' = [trees EXCEPT ![t] = MerkleTree(depth)]
            /\ res' = [op |-> "new", t |-> t, depth |-> depth, ok |-> TRUE]
       ELSE /\ UNCHANGED trees
            /\ res' = [op |-> "new", t |-> t, depth |-> depth, ok |-> FALSE]

AppendLeaf(t, leaf, max) ==
    /\ trees[t].built
    /\ Len(trees[t].leaves) < max
    /\ trees' = [trees EXCEPT ![t].leaves = Append(@, leaf)]
    /\ res' = [op |-> "append_leaf", t |-> t, ok |-> TRUE]

Root(t) ==
    /\ trees[t].built
    /\ UNCHANGED trees
    /\ res' = [op |-> "root", t |-> t, ok |-> TRUE,
               out |-> root(trees[t].leaves)]

GetProof(t, index) ==
    /\ trees[t].built
    /\ UNCHANGED trees
    /\ res' = IF get_proof_assert(trees[t].leaves, index)
              THEN [op |-> "get_proof", t |-> t, index |-> index, ok |-> TRUE,
                    out |-> get_proof(trees[t].leaves, index)]
              ELSE [op |-> "get_proof", t |-> t, index |-> index, ok |-> FALSE,
                    out |-> <<>>]

GetProofOptimized(t, index) ==
    /\ trees[t].built
    /\ UNCHANGED trees
    /\ res' = IF get_proof_optimized_assert(trees[t].leaves, index)
              THEN [op |-> "get_proof_optimized", t |-> t, index |-> index,
                    ok |-> TRUE,
                    out |-> get_proof_optimized(trees[t].leaves, index)]
              ELSE [op |-> "get_proof_optimized", t |-> t, index |-> index,
                    ok |-> FALSE, out |-> <<>>]

\* verify_proof is a static function: t only names the tree the caller took
\* the arguments from.
VerifyProof(t, inp) ==
    /\ trees[t].built
    /\ UNCHANGED trees
    /\ res' = [op |-> "verify_proof", t |-> t, ok |-> TRUE,
               leaf |-> inp.leaf, proof |-> inp.proof, index |-> inp.index,
               root |-> inp.root,
               out |-> verify_proof(inp.leaf, inp.proof, inp.index, inp.root)]

\* ---- arguments a caller passes to verify_proof --------------------------
ValidIndex(leaves) == 0..(Len(leaves) - 1)

Generators(leaves, i) ==
    {get_proof(leaves, i), get_proof_optimized(leaves, i)}

\* the tuple the tests pass: (tree.leaves[i], proof, i, tree.root())
Accepted(leaves, i, proof) ==
    [leaf |-> leaves[i + 1], proof |-> proof, index |-> i,
     root |-> root(leaves)]

HonestInputs(leaves) ==
    {Accepted(leaves, i, p) : <<i, p>> \in
        UNION {{i} \X Generators(leaves, i) : i \in ValidIndex(leaves)}}

WrongIndexInputs(leaves) ==
    {[a EXCEPT !.index = j] : <<a, j>> \in HonestInputs(leaves) \X IndexInputs}

TamperDigests(leaves) ==
    LeafInputs \cup {root(leaves), hash_nodes(ZERO, ZERO)}

TamperedInputs(leaves) ==
    LET T == TamperDigests(leaves)
        H == {Accepted(leaves, i, get_proof(leaves, i)) : i \in ValidIndex(leaves)}
    IN  {[a EXCEPT !.leaf = d] : <<a, d>> \in H \X T}
        \cup {[a EXCEPT !.root = d] : <<a, d>> \in H \X T}
        \cup UNION {{[a EXCEPT !.proof[k] = d] : <<k, d>> \in (DOMAIN a.proof) \X T}
                     : a \in H}

\* ---- one tree: every call ------------------------------------------------
Next ==
    \/ \E depth \in DepthInputs : New(1, depth)
    \/ \E leaf \in LeafInputs : AppendLeaf(1, leaf, MaxLeaves)
    \/ Root(1)
    \/ \E index \in IndexInputs : GetProof(1, index)
    \/ \E index \in IndexInputs : GetProofOptimized(1, index)
    \/ \E inp \in WrongIndexInputs(trees[1].leaves) : VerifyProof(1, inp)

Spec == Init /\ [][Next]_vars

\* ---- one tree: verify_proof on tampered arguments ------------------------
NextTamper ==
    \/ \E depth \in PairDepths : New(1, depth)
    \/ \E leaf \in LeafInputs : AppendLeaf(1, leaf, MaxLeaves)
    \/ \E inp \in HonestInputs(trees[1].leaves) \cup TamperedInputs(trees[1].leaves) :
          VerifyProof(1, inp)

SpecTamper == Init /\ [][NextTamper]_vars

\* ---- two trees: their roots compared --------------------------------------
RootBoth ==
    /\ \A t \in TreeIds : trees[t].built
    /\ UNCHANGED trees
    /\ res' = [op |-> "root_both", t |-> 0, ok |-> TRUE,
               out |-> [t \in TreeIds |-> root(trees[t].leaves)]]

NextPair ==
    \/ \E t \in TreeIds, depth \in PairDepths : New(t, depth)
    \/ \E t \in TreeIds, leaf \in LeafInputs : AppendLeaf(t, leaf, MaxPairLeaves)
    \/ RootBoth

SpecPair == Init /\ [][NextPair]_vars

\* ==== properties ==========================================================
LeavesOf(r) == trees[r.t].leaves

ProofOps == {"get_proof", "get_proof_optimized"}

\* C1: a proof returned by either generator is the sequence the other
\* generator returns for the same tree and index (same length, same digest at
\* every position).
ProofEquivalence ==
    (res.op \in ProofOps /\ res.ok) =>
        LET other == IF res.op = "get_proof"
                     THEN get_proof_optimized(LeavesOf(res), res.index)
                     ELSE get_proof(LeavesOf(res), res.index)
        IN /\ Len(res.out) = Len(other)
           /\ \A k \in DOMAIN other : res.out[k] = other[k]

ProofEquivalenceWitness ==
    /\ res.op = "get_proof_optimized"
    /\ res.ok
    /\ Len(LeavesOf(res)) = 3
    /\ res.index = 2
    /\ Len(res.out) = 2

\* C2: verify_proof called with (leaves[i], get_proof(i) or
\* get_proof_optimized(i), i, root()) of a non-empty tree returns true.
RoundTrip ==
    res.op = "verify_proof" =>
        \A i \in ValidIndex(LeavesOf(res)) :
            ( /\ res.leaf = LeavesOf(res)[i + 1]
              /\ res.index = i
              /\ res.root = root(LeavesOf(res))
              /\ res.proof \in Generators(LeavesOf(res), i) )
            => res.out = TRUE

RoundTripWitness ==
    /\ res.op = "verify_proof"
    /\ Len(LeavesOf(res)) = 3
    /\ res.index = 2
    /\ res.leaf = LeavesOf(res)[3]
    /\ res.proof = get_proof(LeavesOf(res), 2)
    /\ res.root = root(LeavesOf(res))
    /\ res.out = TRUE

\* r is the accepted tuple a with exactly one of the leaf, one proof entry
\* or the root replaced by a different digest
OneReplaced(a, r) ==
    \/ r.leaf # a.leaf /\ r.proof = a.proof /\ r.root = a.root
    \/ /\ r.leaf = a.leaf
       /\ r.root = a.root
       /\ Len(r.proof) = Len(a.proof)
       /\ Cardinality({k \in DOMAIN a.proof : r.proof[k] # a.proof[k]}) = 1
    \/ r.leaf = a.leaf /\ r.proof = a.proof /\ r.root # a.root

\* C3: verify_proof returns false on an accepted tuple (leaves[i],
\* get_proof(i), i, root()) in which exactly one of the leaf, a single proof
\* entry or the root was replaced by a different digest.
TamperRejected ==
    res.op = "verify_proof" =>
        \A i \in ValidIndex(LeavesOf(res)) :
            ( /\ res.index = i
              /\ OneReplaced(Accepted(LeavesOf(res), i, get_proof(LeavesOf(res), i)), res) )
            => res.out = FALSE

TamperRejectedWitness ==
    /\ res.op = "verify_proof"
    /\ Len(LeavesOf(res)) = 3
    /\ res.index = 2
    /\ res.leaf = LeavesOf(res)[3]
    /\ res.root = root(LeavesOf(res))
    /\ Len(res.proof) = 2
    /\ res.proof[1] = ZERO
    /\ res.proof[2] # get_proof(LeavesOf(res), 2)[2]
    /\ res.out = FALSE

\* C4 as claimed: verify_proof returns a boolean and, given leaves[i],
\* get_proof(i) and root() with any index j other than i, returns false.
WrongIndexRejected ==
    res.op = "verify_proof" =>
        /\ res.out \in BOOLEAN
        /\ \A i \in ValidIndex(LeavesOf(res)) :
              ( /\ res.leaf = LeavesOf(res)[i + 1]
                /\ res.proof = get_proof(LeavesOf(res), i)
                /\ res.root = root(LeavesOf(res))
                /\ res.index # i )
              => res.out = FALSE

Distinct(leaves) ==
    \A p, q \in DOMAIN leaves : p # q => leaves[p] # leaves[q]

\* C4 amended: verify_proof returns a boolean, and for a tree whose leaves
\* are pairwise different it returns false given leaves[i], get_proof(i),
\* root() and another valid index j (j < leaves.len(), j # i).
WrongValidIndexRejected ==
    res.op = "verify_proof" =>
        /\ res.out \in BOOLEAN
        /\ \A i \in ValidIndex(LeavesOf(res)) :
              ( /\ Distinct(LeavesOf(res))
                /\ res.leaf = LeavesOf(res)[i + 1]
                /\ res.proof = get_proof(LeavesOf(res), i)
                /\ res.root = root(LeavesOf(res))
                /\ res.index # i
                /\ res.index \in ValidIndex(LeavesOf(res)) )
              => res.out = FALSE

WrongValidIndexWitness ==
    /\ res.op = "verify_proof"
    /\ Len(LeavesOf(res)) = 3
    /\ Distinct(LeavesOf(res))
    /\ res.leaf = LeavesOf(res)[3]
    /\ res.proof = get_proof(LeavesOf(res), 2)
    /\ res.root = root(LeavesOf(res))
    /\ res.index = 1
    /\ res.out = FALSE

\* C5: a get_proof or get_proof_optimized call panics exactly when
\* index >= leaves.len(), and the call leaves every tree as it was.
BoundsCheck ==
    [][res'.op \in ProofOps =>
          /\ res'.ok <=> res'.index < Len(trees[res'.t].leaves)
          /\ trees' = trees]_vars

BoundsCheckWitness ==
    /\ res.op = "get_proof_optimized"
    /\ ~res.ok
    /\ Len(LeavesOf(res)) = 2
    /\ res.index = 2

\* the reference fold, top down: the node at height h and position k
Width(n, h) == (n + 2 ^ h - 1) \div 2 ^ h

RECURSIVE RefNode(_, _, _)
RefNode(leaves, h, k) ==
    IF h = 0 THEN leaves[k + 1]
    ELSE hash_nodes(RefNode(leaves, h - 1, 2 * k),
                    IF 2 * k + 1 < Width(Len(leaves), h - 1)
                    THEN RefNode(leaves, h - 1, 2 * k + 1)
                    ELSE ZERO)

RefHeight(n) == CHOOSE h \in 0..n : Width(n, h) = 1 /\ \A g \in 0..(h - 1) : Width(n, g) > 1

RefRoot(leaves) ==
    IF Len(leaves) = 0 THEN ZERO
    ELSE RefNode(leaves, RefHeight(Len(leaves)), 0)

\* C6: root() returns, and returns the reference fold of the leaves: the
\* all-zero digest for no leaf, the leaf for one leaf, otherwise the pairwise
\* fold in which an unpaired element is hashed with the all-zero digest on
\* its right.
RootIsReferenceFold ==
    res.op = "root" =>
        /\ res.ok
        /\ res.out = RefRoot(LeavesOf(res))
        /\ Len(LeavesOf(res)) = 0 => res.out = ZERO
        /\ Len(LeavesOf(res)) = 1 => res.out = LeavesOf(res)[1]

RootIsReferenceFoldWitness ==
    /\ res.op = "root"
    /\ Len(LeavesOf(res)) = 3
    /\ res.out = hash_nodes(hash_nodes(LeavesOf(res)[1], LeavesOf(res)[2]),
                            hash_nodes(LeavesOf(res)[3], ZERO))

\* b is a with the leaves at two positions, which hold different digests,
\* swapped
IsSwap(a, b) ==
    /\ Len(a) = Len(b)
    /\ \E p, q \in DOMAIN a :
          /\ a[p] # a[q]
          /\ b = [a EXCEPT ![p] = a[q], ![q] = a[p]]

\* C7: root() of two trees holding the same leaf sequence is the same digest,
\* and root() of two trees of which one holds the other's leaves with two
\* different leaves swapped differs.
RootOrderSensitive ==
    res.op = "root_both" =>
        /\ (trees[1].leaves = trees[2].leaves => res.out[1] = res.out[2])
        /\ (IsSwap(trees[1].leaves, trees[2].leaves) => res.out[1] # res.out[2])

RootOrderSensitiveWitness ==
    /\ res.op = "root_both"
    /\ Len(trees[1].leaves) = 3
    /\ IsSwap(trees[1].leaves, trees[2].leaves)
    /\ trees[1].leaves[3] # trees[2].leaves[3]
    /\ res.out[1] # res.out[2]

\* C8: new(depth) panics exactly when depth > 27 and then builds no tree;
\* otherwise it returns a tree of that depth with no leaf; every built tree
\* has depth <= 27.
NewChecksDepth ==
    /\ res.op = "new" =>
          /\ res.ok <=> res.depth <= 27
          /\ res.ok => trees[res.t] = [built |-> TRUE, depth |-> res.depth, leaves |-> <<>>]
          /\ ~res.ok => ~trees[res.t].built
    /\ \A t \in TreeIds : trees[t].built => trees[t].depth <= 27

NewChecksDepthWitness ==
    /\ res.op = "new"
    /\ ~res.ok
    /\ res.depth = 28
    /\ ~trees[1].built

\* C9: no built tree holds more than 2^depth leaves.
LeafCountWithinDepth ==
    \A t \in TreeIds : trees[t].built => Len(trees[t].leaves) <= 2 ^ trees[t].depth

\* C10 as claimed: two trees whose leaf sequences differ in any way have
\* different roots.
RootCommitsToSequence ==
    res.op = "root_both" =>
        (trees[1].leaves # trees[2].leaves => res.out[1] # res.out[2])

\* C10 amended: two trees with the same number of leaves whose leaf sequences
\* differ at some position have different roots.
RootCommitsAtEqualLength ==
    ( /\ res.op = "root_both"
      /\ Len(trees[1].leaves) = Len(trees[2].leaves)
      /\ \E k \in DOMAIN trees[1].leaves : trees[1].leaves[k] # trees[2].leaves[k] )
    => res.out[1] # res.out[2]

RootCommitsAtEqualLengthWitness ==
    /\ res.op = "root_both"
    /\ Len(trees[1].leaves) = 3
    /\ Len(trees[2].leaves) = 3
    /\ trees[1].leaves[1] = trees[2].leaves[1]
    /\ trees[1].leaves[2] = trees[2].leaves[2]
    /\ trees[1].leaves[3] # trees[2].leaves[3]
    /\ res.out[1] # res.out[2]

====
